---- MODULE Spec2Model ----
(***************************************************************************)
(* select_items of file_picker.py as a state machine.                      *)
(*                                                                         *)
(* One call of select_items is a straight run through the positions of     *)
(* the function body (pc).  The native entry points it calls through       *)
(* ctypes (CoInitialize, SHBrowseForFolderW, SHGetPathFromIDListW,         *)
(* CoTaskMemFree, CoUninitialize, GetOpenFileNameW, CommDlgExtendedError)  *)
(* are the environment: what the user does in the dialog and what the      *)
(* operating system writes into the buffer are chosen with \E.             *)
(*                                                                         *)
(* Text is a sequence of one-character strings; NUL is the null character. *)
(***************************************************************************)
EXTENDS Naturals, Integers, Sequences, FiniteSets, TLC

\* ------------------------------------------------------------------ bounds
\* buffer_size, the capacity of the text buffer (8192 by default).
BufferSize == 10
\* the largest number of file names the user selects at once
MaxNames == 3
\* the number of calls of select_items in one run of the process
MaxCalls == 2

\* ------------------------------------------------------- program constants
FOS_PICKFOLDERS == 32
OFN_ALLOWMULTISELECT == 512
OFN_EXPLORER == 524288
OFN_FILEMUSTEXIST == 8

NUL == "NUL"
sep == "\\"
colon == ":"

\* the values select_mode is called with: the three the function knows,
\* and two it does not
ValidModes == {"folder", "file", "multi-files"}
Modes == ValidModes \cup {"invalid", ""}

\* ------------------------------------------------------- the environment
\* Directories, file names and full paths the open-file dialog reports.
\* A file name is relative to the directory, or (a file reached through a
\* link into another directory) a full path of its own.
DirNames == { <<"C", ":", "\\", "d">>, <<"C", ":", "\\">> }
FileNames == { <<"a">>, <<"b">>, <<"D", ":", "\\", "a">> }
FullPaths == { <<"C", ":", "\\", "d", "\\", "a">>, <<"C", ":", "\\", "a">> }

\* Items of the folder-browse dialog: the display name the dialog writes
\* to pszDisplayName, and the file-system path of the item, or <<>> for an
\* item that has none (a virtual folder).  BufferSize is never smaller than
\* an item's text and its terminator: SHBrowseForFolderW and
\* SHGetPathFromIDListW are handed a buffer they take to hold MAX_PATH.
FolderItems ==
    { [display |-> <<"d">>, path |-> <<"C", ":", "\\", "d">>],
      [display |-> <<"D", "i", "s", "k", "0">>, path |-> <<"C", ":", "\\">>],
      [display |-> <<"P", "C">>, path |-> <<>>] }

\* extended error codes of the common dialogs other than "buffer too
\* small": CDERR_INITIALIZATION, CDERR_MEMALLOCFAILURE
DialogErrors == {2, 9}
\* FNERR_BUFFERTOOSMALL
BufferTooSmall == 12288 + 3

VARIABLES
    pc,             \* position in select_items; "idle" before the first call
    calls,          \* calls of select_items so far
    select_mode,    \* the argument of the call
    buffer,         \* ctypes.create_unicode_buffer(buffer_size)
    libs,           \* native libraries the call has loaded
    Flags,          \* ofn.Flags / bi.ulFlags
    pidl,           \* value returned by SHBrowseForFolder; 0 is null
    pidlState,      \* "none", "allocated", "freed"
    flag,           \* value returned by GetOpenFileName
    lastError,      \* what CommDlgExtendedError will return
    error_code,     \* the local error_code
    result,         \* the local result
    ret,            \* the list returned
    outcome,        \* "running", "returned", or the exception raised
    stdout,         \* lines printed by the call
    picked,         \* what the user picked: a folder item or a list of tokens
    dialog,         \* how the dialog ended: "none", "ok", "cancel", "error", "raised"
    comDepth,       \* COM initialization count of the thread
    comDepthAtCall, \* comDepth when the call began
    initCalls,      \* CoInitialize calls of this call
    uninitCalls,    \* CoUninitialize calls of this call
    freeCalls,      \* CoTaskMemFree calls of this call
    dialogCalls,    \* dialog invocations of this call
    pidlUses        \* uses of the identifier after it was freed

vars == << pc, calls, select_mode, buffer, libs, Flags, pidl, pidlState, flag,
           lastError, error_code, result, ret, outcome, stdout, picked, dialog,
           comDepth, comDepthAtCall, initCalls, uninitCalls, freeCalls,
           dialogCalls, pidlUses >>

\* ------------------------------------------------------------ text helpers
ZeroBuffer == [i \in 1..BufferSize |-> NUL]

\* s written at the start of buf, the rest of buf kept
WriteAt(buf, s) == s \o SubSeq(buf, Len(s) + 1, Len(buf))

RECURSIVE SplitAcc(_, _, _, _)
SplitAcc(s, i, cur, acc) ==
    IF i > Len(s) THEN Append(acc, cur)
    ELSE IF s[i] = NUL THEN SplitAcc(s, i + 1, <<>>, Append(acc, cur))
    ELSE SplitAcc(s, i + 1, Append(cur, s[i]), acc)

\* str.split("\0")
Split(s) == SplitAcc(s, 1, <<>>, <<>>)

IsNonEmpty(item) == item # <<>>

\* [item for item in ... if item]
NonEmptyItems(items) == SelectSeq(items, IsNonEmpty)

Lower(c) == IF c = "C" THEN "c" ELSE IF c = "D" THEN "d" ELSE c
LowerText(s) == [i \in 1..Len(s) |-> Lower(s[i])]

\* ntpath.splitroot for a path that does not begin with two separators
SplitRoot(p) ==
    IF Len(p) >= 1 /\ p[1] = sep
    THEN [drive |-> <<>>, root |-> <<sep>>, path |-> Tail(p)]
    ELSE IF Len(p) >= 2 /\ p[2] = colon
    THEN IF Len(p) >= 3 /\ p[3] = sep
         THEN [drive |-> SubSeq(p, 1, 2), root |-> <<sep>>, path |-> SubSeq(p, 4, Len(p))]
         ELSE [drive |-> SubSeq(p, 1, 2), root |-> <<>>, path |-> SubSeq(p, 3, Len(p))]
    ELSE [drive |-> <<>>, root |-> <<>>, path |-> p]

\* os.path.join(folder, f) on Windows.  (The separator ntpath.join adds
\* after a UNC drive has no case here: a drive ends with a colon.)
Join(folder, f) ==
    LET r == SplitRoot(folder)
        p == SplitRoot(f)
        withSep == IF r.path # <<>> /\ r.path[Len(r.path)] # sep
                   THEN r.path \o <<sep>> ELSE r.path
    IN  IF p.root # <<>>
        THEN (IF p.drive # <<>> \/ r.drive = <<>> THEN p.drive ELSE r.drive)
             \o p.root \o p.path
        ELSE IF p.drive # <<>> /\ p.drive # r.drive
                /\ LowerText(p.drive) # LowerText(r.drive)
        THEN p.drive \o p.root \o p.path
        ELSE (IF p.drive # <<>> /\ p.drive # r.drive THEN p.drive ELSE r.drive)
             \o r.root \o withSep \o p.path

\* the text GetOpenFileName leaves in lpstrFile: every token followed by a
\* null, and one more null after the last
RECURSIVE FileList(_)
FileList(tokens) ==
    IF tokens = <<>> THEN <<NUL>>
    ELSE tokens[1] \o <<NUL>> \o FileList(Tail(tokens))

\* the multiple-selection bit of ofn.Flags
AllowsMultiSelect(f) == (f \div OFN_ALLOWMULTISELECT) % 2 = 1

\* what the user can select in the open-file dialog: one file, reported as
\* its full path, or with the multiple-selection flag several files,
\* reported as their directory and then their names
Selections(f) ==
    { <<p>> : p \in FullPaths }
    \cup (IF AllowsMultiSelect(f)
          THEN UNION { { <<d>> \o names : names \in [1..n -> FileNames], d \in DirNames }
                       : n \in 1..MaxNames }
          ELSE {})

\* files computed as if the first token were a file like the others
FilesWithFolder(tokens) ==
    [i \in 1..Len(tokens) |-> Join(tokens[1], tokens[i])]

\* files computed by joining in the single-token case too
FilesAlwaysJoined(tokens) ==
    [i \in 1..(Len(tokens) - 1) |-> Join(tokens[1], tokens[i + 1])]

\* the files built from the non-empty tokens of the buffer, when there is
\* one at least
Files(tokens) ==
    IF Len(tokens) > 1
    THEN LET rest == NonEmptyItems(SubSeq(tokens, 2, Len(tokens)))
         IN  [i \in 1..Len(rest) |-> Join(tokens[1], rest[i])]
    ELSE <<tokens[1]>>

\* ------------------------------------------------------------------- Init
Init ==
    /\ pc = "idle"
    /\ calls = 0
    /\ select_mode = ""
    /\ buffer = ZeroBuffer
    /\ libs = {}
    /\ Flags = 0
    /\ pidl = 0
    /\ pidlState = "none"
    /\ flag = 0
    /\ lastError = 0
    /\ error_code = 0
    /\ result = <<>>
    /\ ret = <<>>
    /\ outcome = "returned"
    /\ stdout = <<>>
    /\ picked = <<>>
    /\ dialog = "none"
    /\ comDepth = 0
    /\ comDepthAtCall = 0
    /\ initCalls = 0
    /\ uninitCalls = 0
    /\ freeCalls = 0
    /\ dialogCalls = 0
    /\ pidlUses = 0

\* ------------------------------------------------------------- the call
\* select_items(mode, BufferSize) is called: the locals are fresh and the
\* buffer is created, filled with nulls.
Call(mode) ==
    /\ pc \in {"idle", "done"}
    /\ calls < MaxCalls
    /\ calls' = calls + 1
    /\ select_mode' = mode
    /\ buffer' = ZeroBuffer
    /\ libs' = {}
    /\ Flags' = 0
    /\ pidl' = 0
    /\ pidlState' = "none"
    /\ flag' = 0
    /\ lastError' = 0
    /\ error_code' = 0
    /\ result' = <<>>
    /\ ret' = <<>>
    /\ outcome' = "running"
    /\ stdout' = <<>>
    /\ picked' = <<>>
    /\ dialog' = "none"
    /\ comDepthAtCall' = comDepth
    /\ initCalls' = 0
    /\ uninitCalls' = 0
    /\ freeCalls' = 0
    /\ dialogCalls' = 0
    /\ pidlUses' = 0
    /\ pc' = IF mode = "folder" THEN "folder_libs" ELSE "file_libs"
    /\ UNCHANGED comDepth

\* --------------------------------------------------------- folder branch
\* shell32 = ctypes.windll.shell32; ole32 = ctypes.windll.ole32
LoadShellLibraries ==
    /\ pc = "folder_libs"
    /\ libs' = libs \cup {"shell32", "ole32"}
    /\ pc' = "coinit"
    /\ UNCHANGED << calls, select_mode, buffer, Flags, pidl, pidlState, flag,
                    lastError, error_code, result, ret, outcome, stdout, picked,
                    dialog, comDepth, comDepthAtCall, initCalls, uninitCalls,
                    freeCalls, dialogCalls, pidlUses >>

\* ole32.CoInitialize(None), then the BROWSEINFO is filled in
CoInitialize ==
    /\ pc = "coinit"
    /\ comDepth' = comDepth + 1
    /\ initCalls' = initCalls + 1
    /\ Flags' = FOS_PICKFOLDERS
    /\ pc' = "browse"
    /\ UNCHANGED << calls, select_mode, buffer, libs, pidl, pidlState, flag,
                    lastError, error_code, result, ret, outcome, stdout, picked,
                    dialog, comDepthAtCall, uninitCalls, freeCalls, dialogCalls,
                    pidlUses >>

\* pidl = SHBrowseForFolder(byref(bi)): the user picks an item, whose
\* display name the dialog writes to bi.pszDisplayName (the buffer)
BrowseSelects ==
    /\ pc = "browse"
    /\ \E item \in FolderItems :
        /\ picked' = item
        /\ buffer' = WriteAt(buffer, item.display \o <<NUL>>)
    /\ pidl' = 1
    /\ pidlState' = "allocated"
    /\ dialog' = "ok"
    /\ dialogCalls' = dialogCalls + 1
    /\ pc' = "resolve"
    /\ UNCHANGED << calls, select_mode, libs, Flags, flag, lastError, error_code,
                    result, ret, outcome, stdout, comDepth, comDepthAtCall,
                    initCalls, uninitCalls, freeCalls, pidlUses >>

\* SHBrowseForFolder returns null: the user cancelled
BrowseCancels ==
    /\ pc = "browse"
    /\ pidl' = 0
    /\ dialog' = "cancel"
    /\ dialogCalls' = dialogCalls + 1
    /\ pc' = "uninit_cancel"
    /\ UNCHANGED << calls, select_mode, buffer, libs, Flags, pidlState, flag,
                    lastError, error_code, result, ret, outcome, stdout, picked,
                    comDepth, comDepthAtCall, initCalls, uninitCalls, freeCalls,
                    pidlUses >>

\* the foreign call raises (ctypes turns a fault inside the native call
\* into OSError); nothing in select_items catches it
BrowseRaises ==
    /\ pc = "browse"
    /\ dialog' = "raised"
    /\ dialogCalls' = dialogCalls + 1
    /\ outcome' = "OSError"
    /\ pc' = "done"
    /\ UNCHANGED << calls, select_mode, buffer, libs, Flags, pidl, pidlState,
                    flag, lastError, error_code, result, ret, stdout, picked,
                    comDepth, comDepthAtCall, initCalls, uninitCalls, freeCalls,
                    pidlUses >>

\* SHGetPathFromIDList(pidl_ptr, buffer); result = buffer[:].split("\0").
\* The path and its terminator are written at the start of the buffer; for
\* an item without a file-system path the function fails, its result is
\* not looked at, and the buffer holds the empty string.
ResolvePath ==
    /\ pc = "resolve"
    /\ pidlUses' = IF pidlState = "freed" THEN pidlUses + 1 ELSE pidlUses
    /\ buffer' = WriteAt(buffer, picked.path \o <<NUL>>)
    /\ result' = Split(buffer')
    /\ pc' = "free"
    /\ UNCHANGED << calls, select_mode, libs, Flags, pidl, pidlState, flag,
                    lastError, error_code, ret, outcome, stdout, picked, dialog,
                    comDepth, comDepthAtCall, initCalls, uninitCalls, freeCalls,
                    dialogCalls >>

\* a CoTaskMemFree step that leaves the identifier allocated
CoTaskMemFreeSkipped ==
    /\ pc = "free"
    /\ pc' = "uninit_ok"
    /\ UNCHANGED << calls, select_mode, buffer, libs, Flags, pidl, pidlState,
                    flag, lastError, error_code, result, ret, outcome, stdout,
                    picked, dialog, comDepth, comDepthAtCall, initCalls,
                    uninitCalls, freeCalls, dialogCalls, pidlUses >>

\* CoTaskMemFree(pidl_ptr)
CoTaskMemFree ==
    /\ pc = "free"
    /\ pidlState' = "freed"
    /\ freeCalls' = freeCalls + 1
    /\ pc' = "uninit_ok"
    /\ UNCHANGED << calls, select_mode, buffer, libs, Flags, pidl, flag,
                    lastError, error_code, result, ret, outcome, stdout, picked,
                    dialog, comDepth, comDepthAtCall, initCalls, uninitCalls,
                    dialogCalls, pidlUses >>

\* ole32.CoUninitialize() after a selection
CoUninitializeSelected ==
    /\ pc = "uninit_ok"
    /\ comDepth' = comDepth - 1
    /\ uninitCalls' = uninitCalls + 1
    /\ pc' = "return_folder"
    /\ UNCHANGED << calls, select_mode, buffer, libs, Flags, pidl, pidlState,
                    flag, lastError, error_code, result, ret, outcome, stdout,
                    picked, dialog, comDepthAtCall, initCalls, freeCalls,
                    dialogCalls, pidlUses >>

\* return [result[0]]
ReturnFolder ==
    /\ pc = "return_folder"
    /\ ret' = << result[1] >>
    /\ outcome' = "returned"
    /\ pc' = "done"
    /\ UNCHANGED << calls, select_mode, buffer, libs, Flags, pidl, pidlState,
                    flag, lastError, error_code, result, stdout, picked, dialog,
                    comDepth, comDepthAtCall, initCalls, uninitCalls, freeCalls,
                    dialogCalls, pidlUses >>

\* a cancel branch that forgets the teardown
CoUninitializeCancelledSkipped ==
    /\ pc = "uninit_cancel"
    /\ pc' = "return_cancel"
    /\ UNCHANGED << calls, select_mode, buffer, libs, Flags, pidl, pidlState,
                    flag, lastError, error_code, result, ret, outcome, stdout,
                    picked, dialog, comDepth, comDepthAtCall, initCalls,
                    uninitCalls, freeCalls, dialogCalls, pidlUses >>

\* ole32.CoUninitialize() after a cancellation
CoUninitializeCancelled ==
    /\ pc = "uninit_cancel"
    /\ comDepth' = comDepth - 1
    /\ uninitCalls' = uninitCalls + 1
    /\ pc' = "return_cancel"
    /\ UNCHANGED << calls, select_mode, buffer, libs, Flags, pidl, pidlState,
                    flag, lastError, error_code, result, ret, outcome, stdout,
                    picked, dialog, comDepthAtCall, initCalls, freeCalls,
                    dialogCalls, pidlUses >>

\* a cancel branch that returns the first piece of the buffer, as the
\* selection branch does
ReturnCancelledAsSelected ==
    /\ pc = "return_cancel"
    /\ ret' = << Split(buffer)[1] >>
    /\ outcome' = "returned"
    /\ pc' = "done"
    /\ UNCHANGED << calls, select_mode, buffer, libs, Flags, pidl, pidlState,
                    flag, lastError, error_code, result, stdout, picked, dialog,
                    comDepth, comDepthAtCall, initCalls, uninitCalls, freeCalls,
                    dialogCalls, pidlUses >>

\* return [] of the folder branch
ReturnCancelled ==
    /\ pc = "return_cancel"
    /\ ret' = <<>>
    /\ outcome' = "returned"
    /\ pc' = "done"
    /\ UNCHANGED << calls, select_mode, buffer, libs, Flags, pidl, pidlState,
                    flag, lastError, error_code, result, stdout, picked, dialog,
                    comDepth, comDepthAtCall, initCalls, uninitCalls, freeCalls,
                    dialogCalls, pidlUses >>

\* ----------------------------------------------------------- file branch
\* comdlg32 = ctypes.windll.comdlg32, its two entry points are looked up
\* and the OPENFILENAME is filled in up to nMaxFile; this is the else
\* branch of "select_mode == 'folder'", taken for every other mode
LoadCommonDialogs ==
    /\ pc = "file_libs"
    /\ libs' = libs \cup {"comdlg32"}
    /\ pc' = "set_flags"
    /\ UNCHANGED << calls, select_mode, buffer, Flags, pidl, pidlState, flag,
                    lastError, error_code, result, ret, outcome, stdout, picked,
                    dialog, comDepth, comDepthAtCall, initCalls, uninitCalls,
                    freeCalls, dialogCalls, pidlUses >>

\* the title and the flags of the mode; any other mode raises ValueError
SetFlags ==
    /\ pc = "set_flags"
    /\ IF select_mode = "file"
       THEN /\ Flags' = OFN_EXPLORER + OFN_FILEMUSTEXIST
            /\ pc' = "open"
            /\ UNCHANGED outcome
       ELSE IF select_mode = "multi-files"
       THEN /\ Flags' = OFN_EXPLORER + OFN_FILEMUSTEXIST + OFN_ALLOWMULTISELECT
            /\ pc' = "open"
            /\ UNCHANGED outcome
       ELSE /\ outcome' = "ValueError"
            /\ pc' = "done"
            /\ UNCHANGED Flags
    /\ UNCHANGED << calls, select_mode, buffer, libs, pidl, pidlState, flag,
                    lastError, error_code, result, ret, stdout, picked, dialog,
                    comDepth, comDepthAtCall, initCalls, uninitCalls, freeCalls,
                    dialogCalls, pidlUses >>

\* flag = GetOpenFileName(byref(ofn)): the user confirms a selection whose
\* text fits nMaxFile, and the dialog writes it to lpstrFile (the buffer)
OpenSelects ==
    /\ pc = "open"
    /\ \E sel \in Selections(Flags) :
        /\ Len(FileList(sel)) <= BufferSize
        /\ picked' = sel
        /\ buffer' = WriteAt(buffer, FileList(sel))
    /\ flag' = 1
    /\ dialog' = "ok"
    /\ dialogCalls' = dialogCalls + 1
    /\ pc' = "parse"
    /\ UNCHANGED << calls, select_mode, libs, Flags, pidl, pidlState, lastError,
                    error_code, result, ret, outcome, stdout, comDepth,
                    comDepthAtCall, initCalls, uninitCalls, freeCalls, pidlUses >>

\* GetOpenFileName returns 0 and the extended error is 0: the user
\* cancelled
OpenCancels ==
    /\ pc = "open"
    /\ flag' = 0
    /\ lastError' = 0
    /\ dialog' = "cancel"
    /\ dialogCalls' = dialogCalls + 1
    /\ pc' = "failed"
    /\ UNCHANGED << calls, select_mode, buffer, libs, Flags, pidl, pidlState,
                    error_code, result, ret, outcome, stdout, picked, comDepth,
                    comDepthAtCall, initCalls, uninitCalls, freeCalls, pidlUses >>

\* GetOpenFileName returns 0 and the extended error is not 0: the dialog
\* failed, or the user confirmed a selection whose text does not fit
OpenFails ==
    /\ pc = "open"
    /\ \/ /\ lastError' \in DialogErrors
          /\ picked' = <<>>
       \/ \E sel \in Selections(Flags) :
            /\ Len(FileList(sel)) > BufferSize
            /\ picked' = sel
            /\ lastError' = BufferTooSmall
    /\ flag' = 0
    /\ dialog' = "error"
    /\ dialogCalls' = dialogCalls + 1
    /\ pc' = "failed"
    /\ UNCHANGED << calls, select_mode, buffer, libs, Flags, pidl, pidlState,
                    error_code, result, ret, outcome, stdout, comDepth,
                    comDepthAtCall, initCalls, uninitCalls, freeCalls, pidlUses >>

\* the foreign call raises
OpenRaises ==
    /\ pc = "open"
    /\ dialog' = "raised"
    /\ dialogCalls' = dialogCalls + 1
    /\ outcome' = "OSError"
    /\ pc' = "done"
    /\ UNCHANGED << calls, select_mode, buffer, libs, Flags, pidl, pidlState,
                    flag, lastError, error_code, result, ret, stdout, picked,
                    comDepth, comDepthAtCall, initCalls, uninitCalls, freeCalls,
                    pidlUses >>

\* the branch "if flag": the non-empty pieces of the buffer, the files
\* built from them, return files.  With no non-empty piece result[0]
\* raises IndexError.
ParseAndReturn ==
    /\ pc = "parse"
    /\ result' = NonEmptyItems(Split(buffer))
    /\ IF result' = <<>>
       THEN /\ outcome' = "IndexError"
            /\ UNCHANGED ret
       ELSE /\ ret' = Files(result')
            /\ outcome' = "returned"
    /\ pc' = "done"
    /\ UNCHANGED << calls, select_mode, buffer, libs, Flags, pidl, pidlState,
                    flag, lastError, error_code, stdout, picked, dialog, comDepth,
                    comDepthAtCall, initCalls, uninitCalls, freeCalls,
                    dialogCalls, pidlUses >>

\* a report that prints the cancellation note whatever the code is
ReportAlwaysCanceled ==
    /\ pc = "failed"
    /\ error_code' = lastError
    /\ stdout' = Append(stdout, [text |-> "Dialog canceled."])
    /\ ret' = <<>>
    /\ outcome' = "returned"
    /\ pc' = "done"
    /\ UNCHANGED << calls, select_mode, buffer, libs, Flags, pidl, pidlState,
                    flag, lastError, result, picked, dialog, comDepth,
                    comDepthAtCall, initCalls, uninitCalls, freeCalls,
                    dialogCalls, pidlUses >>

\* a report that shows the dialog once more after the first failure
ReportAndRetry ==
    /\ pc = "failed"
    /\ error_code' = lastError
    /\ stdout' = <<>>
    /\ IF dialogCalls < 2
       THEN /\ pc' = "open"
            /\ UNCHANGED << ret, outcome >>
       ELSE /\ ret' = <<>>
            /\ outcome' = "returned"
            /\ pc' = "done"
    /\ UNCHANGED << calls, select_mode, buffer, libs, Flags, pidl, pidlState,
                    flag, lastError, result, picked, dialog, comDepth,
                    comDepthAtCall, initCalls, uninitCalls, freeCalls,
                    dialogCalls, pidlUses >>

\* the else branch: error_code = CommDlgExtendedError(), one line printed,
\* return []
ReportAndReturnEmpty ==
    /\ pc = "failed"
    /\ error_code' = lastError
    /\ stdout' = Append(stdout,
                        IF error_code' = 0
                        THEN [text |-> "Dialog canceled."]
                        ELSE [text |-> "Error occurred. CommDlgExtendedError code: ",
                              code |-> error_code'])
    /\ ret' = <<>>
    /\ outcome' = "returned"
    /\ pc' = "done"
    /\ UNCHANGED << calls, select_mode, buffer, libs, Flags, pidl, pidlState,
                    flag, lastError, result, picked, dialog, comDepth,
                    comDepthAtCall, initCalls, uninitCalls, freeCalls,
                    dialogCalls, pidlUses >>

\* ------------------------------------------------------------------- Next
\* the steps select_items takes by itself, without the user
Step ==
    \/ LoadShellLibraries
    \/ CoInitialize
    \/ ResolvePath
    \/ CoTaskMemFree
    \/ CoUninitializeSelected
    \/ ReturnFolder
    \/ CoUninitializeCancelled
    \/ ReturnCancelled
    \/ LoadCommonDialogs
    \/ SetFlags
    \/ ParseAndReturn
    \/ ReportAndReturnEmpty

\* the dialog ends
Dialog ==
    \/ BrowseSelects
    \/ BrowseCancels
    \/ BrowseRaises
    \/ OpenSelects
    \/ OpenCancels
    \/ OpenFails
    \/ OpenRaises

Next ==
    \/ \E mode \in Modes : Call(mode)
    \/ Step
    \/ Dialog

Spec == Init /\ [][Next]_vars

\* select_items runs on: every step that does not wait for the user is
\* taken.  Nothing makes the user end the dialog.
FairSpec == Spec /\ WF_vars(Step)

\* ----------------------------------------------------------------- claims
InCall == calls > 0
Done == InCall /\ pc = "done"
FileModes == {"file", "multi-files"}
CanceledNote == [text |-> "Dialog canceled."]

\* C1: a call with a select_mode other than 'folder', 'file', 'multi-files'
\* ends with ValueError, and up to then it has invoked no dialog, has not
\* initialized COM and has loaded no native library.
C1_InvalidModeNoOSInteraction ==
    (InCall /\ select_mode \notin ValidModes) =>
        /\ dialogCalls = 0
        /\ initCalls = 0
        /\ libs = {}
        /\ pc = "done" => outcome = "ValueError"

\* C2: in folder mode CoUninitialize is never called before CoInitialize
\* nor more than once, and however the call ends (selection, cancellation,
\* exception) CoInitialize and CoUninitialize have each been called once.
C2_FolderTeardownExactlyOnce ==
    (InCall /\ select_mode = "folder") =>
        /\ uninitCalls <= initCalls
        /\ uninitCalls <= 1
        /\ pc = "done" => (initCalls = 1 /\ uninitCalls = 1)

C4_MultiFilesJoinedInOrder ==
    (Done /\ select_mode = "multi-files" /\ flag # 0 /\ Len(picked) > 1) =>
        /\ outcome = "returned"
        /\ Len(ret) = Len(picked) - 1
        /\ \A i \in 1..Len(ret) :
            /\ ret[i] = Join(picked[1], picked[i + 1])
            /\ ret[i] # picked[1]

C4_Witness ==
    /\ Done
    /\ select_mode = "multi-files"
    /\ flag # 0
    /\ picked = << <<"C", ":", "\\", "d">>, <<"b">>, <<"a">> >>
    /\ ret = << <<"C", ":", "\\", "d", "\\", "b">>, <<"C", ":", "\\", "d", "\\", "a">> >>

\* C5: in file mode and in multiple-files mode, when the dialog succeeded
\* with one token in the buffer, the call returns the list of that token,
\* unchanged.
C5_SingleTokenIsThePath ==
    (Done /\ select_mode \in FileModes /\ flag # 0 /\ Len(picked) = 1) =>
        /\ outcome = "returned"
        /\ ret = << picked[1] >>

C5_Witness ==
    /\ Done
    /\ select_mode = "multi-files"
    /\ flag # 0
    /\ picked = << <<"C", ":", "\\", "d", "\\", "a">> >>
    /\ ret = << <<"C", ":", "\\", "d", "\\", "a">> >>

\* C6: in each of the three modes, a call whose dialog the user cancelled
\* raises nothing and returns the empty list.
C6_CancelReturnsEmpty ==
    (InCall /\ dialog = "cancel") =>
        /\ select_mode \in ValidModes
        /\ outcome \in {"running", "returned"}
        /\ ret = <<>>
        /\ pc = "done" => outcome = "returned"

C6_Witness ==
    /\ Done
    /\ dialog = "cancel"
    /\ select_mode = "folder"
    /\ outcome = "returned"
    /\ ret = <<>>

\* C7: in file and multiple-files modes, when the dialog reported failure
\* the call reads the extended error code and returns the empty list
\* without raising; it prints one line, which carries the code exactly
\* when the code is not 0 and is the cancellation note exactly when the
\* code is 0, which is exactly when the user cancelled.
C7_FailureDiagnostic ==
    (Done /\ select_mode \in FileModes /\ dialog \in {"cancel", "error"}) =>
        /\ outcome = "returned"
        /\ ret = <<>>
        /\ error_code = lastError
        /\ Len(stdout) = 1
        /\ error_code # 0 <=>
            ("code" \in DOMAIN stdout[1] /\ stdout[1].code = error_code)
        /\ error_code = 0 <=> stdout[1] = CanceledNote
        /\ error_code = 0 <=> dialog = "cancel"

C7_Witness ==
    /\ Done
    /\ select_mode \in FileModes
    /\ dialog = "error"
    /\ error_code = BufferTooSmall
    /\ ret = <<>>
    /\ stdout[1].code = BufferTooSmall

AfterDialog ==
    {"resolve", "free", "uninit_ok", "return_folder", "uninit_cancel",
     "return_cancel", "parse", "failed"}

\* C9: a call with a valid mode invokes the dialog at most once, and once
\* exactly before any step that follows the dialog; the buffer is parsed
\* only after the dialog has been invoked; when the call has returned, the
\* COM initialization and the item identifier it acquired are released;
\* and once the dialog has ended with a selection, a cancellation or a
\* failure, the call goes on to return.
C9_LinearSequence ==
    /\ [](InCall /\ select_mode \in ValidModes =>
            /\ dialogCalls <= 1
            /\ pc \in AfterDialog => dialogCalls = 1
            /\ result # <<>> => dialogCalls = 1
            /\ (pc = "done" /\ outcome = "returned") =>
                /\ dialogCalls = 1
                /\ pidlState # "allocated"
                /\ comDepth = comDepthAtCall)
    /\ (pc \in AfterDialog) ~> (pc = "done" /\ outcome = "returned")

C9_Witness ==
    /\ Done
    /\ select_mode = "multi-files"
    /\ dialog = "error"
    /\ dialogCalls = 1
    /\ outcome = "returned"

\* C10: whenever the dialog reported success, the call returns a non-empty
\* list of non-empty strings.
C10_SuccessReturnsNonEmptyPaths ==
    (Done /\ dialog = "ok") =>
        /\ outcome = "returned"
        /\ ret # <<>>
        /\ \A i \in 1..Len(ret) : ret[i] # <<>>

====
